---- MODULE Spec2Model ----
(***************************************************************************)
(* Tree-walking evaluation core of the NASL interpreter: the statement     *)
(* evaluator (Interpreter::resolve), the call dispatcher, the loop         *)
(* extension, the function declaration handler, the register of scoped     *)
(* frames and the driver (Iterator for Interpreter).                       *)
(*                                                                         *)
(* One driver pull is one action.  The evaluator is a recursive operator   *)
(* that threads an evaluation state [reg, fuel, lvl, trace] through the    *)
(* statement tree exactly as the Rust code threads &mut self.  `trace` is  *)
(* the history of the evaluation: one "enter" and one "exit" event per     *)
(* resolve invocation, a "push" event per call frame and a "body" event    *)
(* per user-defined body, each with the register at that moment.           *)
(***************************************************************************)
EXTENDS Integers, Sequences, FiniteSets, TLC

\* Bounds of the model.
MaxScript == 2
MaxSteps == 40
MaxFrames == 3

(***************************************************************************)
(* Value model (NaslValue)                                                 *)
(***************************************************************************)
\* A String carries its characters as a sequence of one-character strings.
Null == [t |-> "Null"]
Number(n) == [t |-> "Number", n |-> n]
String(s) == [t |-> "String", s |-> s]
Boolean(b) == [t |-> "Boolean", b |-> b]
ArrayV(a) == [t |-> "Array", a |-> a]
ReturnV(v) == [t |-> "Return", v |-> v]
ExitV(n) == [t |-> "Exit", n |-> n]
ContinueV == [t |-> "Continue"]
BreakV == [t |-> "Break"]
AttackCategoryV(c) == [t |-> "AttackCategory", c |-> c]
\* A Dict carries a function from its keys to its values.
DictV(d) == [t |-> "Dict", d |-> d]
\* (No statement of this model builds a Dict: assignment to an indexed
\* target is the only producer and is not part of these sources.  A Dict
\* reaches the interpreter through the initial bindings.)

IsControl(v) == v.t \in {"Return", "Exit", "Break", "Continue"}

RECURSIVE ToBool(_)
ToBool(value) ==
  CASE value.t = "String" -> value.s # <<>> /\ value.s # <<"0">>
    [] value.t = "Array" -> value.a # <<>>
    [] value.t = "Boolean" -> value.b
    [] value.t = "Null" -> FALSE
    [] value.t = "Number" -> value.n # 0
    [] value.t = "Exit" -> value.n # 0
    [] value.t = "AttackCategory" -> TRUE
    [] value.t = "Dict" -> DOMAIN value.d # {}
    [] value.t = "Return" -> ToBool(value.v)
    [] value.t = "Continue" -> FALSE
    [] value.t = "Break" -> FALSE

\* From<&NaslValue> for i32; Break and Continue reach the panic! arm.
RECURSIVE ToInt(_)
ToInt(value) ==
  CASE value.t = "String" -> [ok |-> TRUE, n |-> 1]
    [] value.t = "Number" -> [ok |-> TRUE, n |-> value.n]
    [] value.t = "Dict" -> [ok |-> TRUE, n |-> 1]
    [] value.t = "Array" -> [ok |-> TRUE, n |-> 1]
    [] value.t = "Boolean" -> [ok |-> TRUE, n |-> IF value.b THEN 1 ELSE 0]
    [] value.t = "AttackCategory" -> [ok |-> TRUE, n |-> value.c]
    [] value.t = "Null" -> [ok |-> TRUE, n |-> 0]
    [] value.t = "Exit" -> [ok |-> TRUE, n |-> value.n]
    [] value.t = "Return" -> ToInt(value.v)
    [] OTHER -> [ok |-> FALSE, n |-> 0]

\* The values of a Dict in the iteration order of its map, which is some
\* order of its keys.
RECURSIVE DictValues(_, _)
DictValues(d, keys) ==
  IF keys = {} THEN <<>>
  ELSE LET k == CHOOSE x \in keys : TRUE
       IN <<d[k]>> \o DictValues(d, keys \ {k})

ToVec(value) ==
  CASE value.t = "Array" -> value.a
    [] value.t = "Dict" -> DictValues(value.d, DOMAIN value.d)
    [] value.t = "Boolean" -> <<value>>
    [] value.t = "Number" -> <<value>>
    [] value.t = "String" -> [i \in 1..Len(value.s) |-> String(<<value.s[i]>>)]
    [] OTHER -> <<>>

(***************************************************************************)
(* Definitions and the register (context.rs)                               *)
(***************************************************************************)
Value(v) == [d |-> "Value", v |-> v]
Function(params, stmt) == [d |-> "Function", params |-> params, stmt |-> stmt]
None == [d |-> "None"]

NoParent == 0 - 1
EmptyNamed == [x \in {} |-> None]
insert(m, k, v) == [x \in (DOMAIN m) \cup {k} |-> IF x = k THEN v ELSE m[x]]

\* Register::index
index(blocks) == Len(blocks)

create_root(blocks, initial) ==
  Append(blocks, [parent |-> NoParent, id |-> 0, named |-> initial])

\* Mutant: the call frame gets no parent at all.
create_root_child_orphan(blocks, named) ==
  Append(blocks, [parent |-> NoParent, id |-> index(blocks), named |-> named])

\* Mutant: the call frame becomes a child of the caller's current frame.
create_root_child_of_current(blocks, named) ==
  Append(blocks, [parent |-> index(blocks) - 1, id |-> index(blocks), named |-> named])

create_root_child(blocks, named) ==
  Append(blocks, [parent |-> 0, id |-> index(blocks), named |-> named])

create_child(blocks, parent, named) ==
  Append(blocks, [parent |-> parent.id, id |-> index(blocks), named |-> named])

drop_last(blocks) ==
  IF blocks = <<>> THEN blocks ELSE SubSeq(blocks, 1, Len(blocks) - 1)

last(blocks) == blocks[Len(blocks)]

add_named(ctx, name, value) == [ctx EXCEPT !.named = insert(@, name, value)]

last_mut_add_named(blocks, name, value) ==
  [blocks EXCEPT ![Len(blocks)] = add_named(@, name, value)]

\* Mutant: the definition goes into the current frame.
add_global_to_current(blocks, name, value) ==
  [blocks EXCEPT ![Len(blocks)] = add_named(@, name, value)]

add_global(blocks, name, value) ==
  [blocks EXCEPT ![1] = add_named(@, name, value)]

\* NaslContext::named: first the frame itself, then the parent chain.
RECURSIVE ctx_named(_, _, _)
ctx_named(ctx, blocks, name) ==
  IF name \in DOMAIN ctx.named THEN ctx.named[name]
  ELSE IF ctx.parent = NoParent THEN None
  ELSE ctx_named(blocks[ctx.parent + 1], blocks, name)

\* Register::named
named(blocks, name) == ctx_named(last(blocks), blocks, name)

(***************************************************************************)
(* Statements (nasl_syntax::Statement)                                     *)
(***************************************************************************)
\* A Primitive carries its token category and the literal the token spans.
PrimNum(n) == [k |-> "Primitive", cat |-> "Number", lit |-> n]
PrimStr(s) == [k |-> "Primitive", cat |-> "String", lit |-> s]
PrimOther == [k |-> "Primitive", cat |-> "Other", lit |-> 0]
Variable(name) == [k |-> "Variable", name |-> name]
Call(name, params) ==
  [k |-> "Call", name |-> name, arguments |-> [k |-> "Parameter", params |-> params]]
NamedParameter(name, val) == [k |-> "NamedParameter", name |-> name, val |-> val]
Parameter(params) == [k |-> "Parameter", params |-> params]
Assign(name, right) == [k |-> "Assign", name |-> name, right |-> right]
Exit(stmt) == [k |-> "Exit", stmt |-> stmt]
Return(stmt) == [k |-> "Return", stmt |-> stmt]
If(cond, ifb) == [k |-> "If", cond |-> cond, ifb |-> ifb, has_else |-> FALSE]
IfElse(cond, ifb, elseb) ==
  [k |-> "If", cond |-> cond, ifb |-> ifb, has_else |-> TRUE, elseb |-> elseb]
Block(stmts) == [k |-> "Block", stmts |-> stmts]
NoOp == [k |-> "NoOp"]
Continue == [k |-> "Continue"]
Break == [k |-> "Break"]
For(assignment, condition, update, body) ==
  [k |-> "For", assignment |-> assignment, condition |-> condition,
   update |-> update, body |-> body]
While(condition, body) == [k |-> "While", condition |-> condition, body |-> body]
Repeat(body, condition) == [k |-> "Repeat", body |-> body, condition |-> condition]
ForEach(variable, iterable, body) ==
  [k |-> "ForEach", variable |-> variable, iterable |-> iterable, body |-> body]
FunctionDeclaration(name, args, exec) ==
  [k |-> "FunctionDeclaration", name |-> name, args |-> args, exec |-> exec]
Include == [k |-> "Include"]
Declare == [k |-> "Declare"]
EoF == [k |-> "EoF"]
AttackCategory(cat) == [k |-> "AttackCategory", cat |-> cat]
ArrayS(name) == [k |-> "Array", name |-> name, has_position |-> FALSE]
ArrayAt(name, position) ==
  [k |-> "Array", name |-> name, has_position |-> TRUE, position |-> position]

(***************************************************************************)
(* Evaluation results (InterpretResult), plus the two ways an evaluation   *)
(* does not return: a panic (todo!(), unwrap) and non-termination.         *)
(***************************************************************************)
Ok(v, st) == [r |-> "ok", v |-> v, st |-> st]
Err(reason, st) == [r |-> "err", v |-> [t |-> "Error", reason |-> reason], st |-> st]
Panic(st) == [r |-> "panic", v |-> [t |-> "Panic"], st |-> st]
Diverge(st) == [r |-> "diverge", v |-> [t |-> "Diverge"], st |-> st]

Returned(res) == res.r \in {"ok", "err"}

Event(ev, s, st) == [ev |-> ev, s |-> s, reg |-> st.reg, lvl |-> st.lvl]
Log(ev, s, st) == [st EXCEPT !.trace = Append(@, Event(ev, s, st))]

(***************************************************************************)
(* Built-in registry (lookup) and its handlers                             *)
(***************************************************************************)
BuiltIns == {"rand", "fail"}
lookup(name) == IF name \in BuiltIns THEN [some |-> TRUE, f |-> name] ELSE [some |-> FALSE]
builtin(f, blocks) ==
  IF f = "rand" THEN [ok |-> TRUE, v |-> Number(4)]
  ELSE [ok |-> FALSE, v |-> "detail"]


(***************************************************************************)
(* Call dispatcher (call.rs)                                               *)
(***************************************************************************)
RECURSIVE resolve(_, _)

\* Mutant: a failed argument is skipped and the loop goes on.
RECURSIVE call_arguments_skip_failed(_, _, _, _, _)
call_arguments_skip_failed(params, i, nmd, position, st) ==
  IF i > Len(params)
  THEN [r |-> "ok", named |-> nmd, position |-> position, st |-> st]
  ELSE LET p == params[i]
           val == resolve(IF p.k = "NamedParameter" THEN p.val ELSE p, st)
       IN IF val.r \in {"panic", "diverge"}
          THEN [r |-> val.r, res |-> val]
          ELSE IF val.r = "err"
               THEN call_arguments_skip_failed(params, i + 1, nmd, position, val.st)
               ELSE IF p.k = "NamedParameter"
                    THEN call_arguments_skip_failed(params, i + 1,
                           insert(nmd, p.name, Value(val.v)), position, val.st)
                    ELSE call_arguments_skip_failed(params, i + 1, nmd,
                           Append(position, val.v), val.st)

\* The argument loop: named arguments go to the map, all others are
\* appended to the positional list; `?` leaves at the first failure.
RECURSIVE call_arguments(_, _, _, _, _)
call_arguments(params, i, nmd, position, st) ==
  IF i > Len(params)
  THEN [r |-> "ok", named |-> nmd, position |-> position, st |-> st]
  ELSE LET p == params[i]
           val == resolve(IF p.k = "NamedParameter" THEN p.val ELSE p, st)
       IN IF val.r # "ok"
          THEN [r |-> val.r, res |-> val]
          ELSE IF p.k = "NamedParameter"
               THEN call_arguments(params, i + 1, insert(nmd, p.name, Value(val.v)),
                                   position, val.st)
               ELSE call_arguments(params, i + 1, nmd, Append(position, val.v), val.st)

\* Mutant: a named argument called _FCT_ANON_ARGS is not overwritten.
call_frame_keep_named(nmd, position) ==
  IF "_FCT_ANON_ARGS" \in DOMAIN nmd THEN nmd
  ELSE insert(nmd, "_FCT_ANON_ARGS", Value(ArrayV(position)))

\* named.insert("_FCT_ANON_ARGS", Array(position)) after the argument loop
call_frame(nmd, position) == insert(nmd, "_FCT_ANON_ARGS", Value(ArrayV(position)))

\* "prepare default values": one declared parameter
default_param(blocks, p) ==
  IF named(blocks, p) = None
  THEN last_mut_add_named(blocks, p, Value(Null))
  ELSE blocks

RECURSIVE default_params(_, _, _)
default_params(blocks, params, i) ==
  IF i > Len(params) THEN blocks
  ELSE default_params(default_param(blocks, params[i]), params, i + 1)

\* Mutant: the call also consumes Break, Continue and Exit of the body.
unwrap_return_consumes(v) ==
  IF v.t = "Return" THEN v.v ELSE IF IsControl(v) THEN Null ELSE v

\* Mutant: the value of the body is passed on as it is.
unwrap_return_none(v) == v

\* match self.resolve(stmt)? { Return(x) => Ok(*x), a => Ok(a) }
unwrap_return(v) == IF v.t = "Return" THEN v.v ELSE v

\* Mutant: the call returns without popping its frame.
call_finish_keep_frame(result) == result

\* self.registrat.drop_last(); result
call_finish(result) == [result EXCEPT !.st.reg = drop_last(@)]

\* Mutant: a name bound to a value is called as a function returning it.
call_user_value_is_result(name, cs, st) ==
  LET found == named(st.reg, name)
  IN IF found = None
     THEN Err(<<"function not found", name>>, st)
     ELSE IF found.d = "Function"
          THEN LET s3 == [st EXCEPT !.reg = default_params(@, found.params, 1)]
                   body == resolve(found.stmt, Log("body", cs, s3))
               IN IF body.r # "ok"
                  THEN body
                  ELSE call_finish(Ok(unwrap_return(body.v), body.st))
          ELSE call_finish(Ok(found.v, st))

\* The user-defined branch: the two `?` return from call itself, before
\* drop_last is reached.
call_user(name, cs, st) ==
  LET found == named(st.reg, name)
  IN IF found = None
     THEN Err(<<"function not found", name>>, st)
     ELSE IF found.d = "Function"
          THEN LET s3 == [st EXCEPT !.reg = default_params(@, found.params, 1)]
                   body == resolve(found.stmt, Log("body", cs, s3))
               IN IF body.r # "ok"
                  THEN body
                  ELSE call_finish(Ok(unwrap_return(body.v), body.st))
          ELSE call_finish(Err(<<"unexpected ContextType", found.d>>, st))

call_builtin(name, f, st) ==
  LET h == builtin(f, st.reg)
  IN call_finish(IF h.ok THEN Ok(h.v, st)
                 ELSE Err(<<"unable to call function", name, h.v>>, st))

\* Mutant: a definition in the register takes precedence over a built-in.
call_register_first(name, arguments, st) ==
  IF arguments.k # "Parameter"
  THEN Err(<<"invalid statement type for function parameters">>, st)
  ELSE LET args == call_arguments(arguments.params, 1, EmptyNamed, <<>>, st)
       IN IF args.r # "ok" THEN args.res
          ELSE LET cs == [k |-> "Call", name |-> name, arguments |-> arguments]
                   s1 == [args.st EXCEPT
                            !.reg = create_root_child(@, call_frame(args.named, args.position))]
                   s2 == Log("push", cs, s1)
                   fn == lookup(name)
               IN IF fn.some /\ named(s2.reg, name) = None
                  THEN call_builtin(name, fn.f, Log("builtin", cs, s2))
                  ELSE call_user(name, cs, s2)

\* The call: arguments, frame, then the built-in registry before the
\* register.
call(name, arguments, st) ==
  IF arguments.k # "Parameter"
  THEN Err(<<"invalid statement type for function parameters">>, st)
  ELSE LET args == call_arguments(arguments.params, 1, EmptyNamed, <<>>, st)
       IN IF args.r # "ok" THEN args.res
          ELSE LET cs == [k |-> "Call", name |-> name, arguments |-> arguments]
                   s1 == [args.st EXCEPT
                            !.reg = create_root_child(@, call_frame(args.named, args.position))]
                   s2 == Log("push", cs, s1)
                   fn == lookup(name)
               IN IF fn.some THEN call_builtin(name, fn.f, Log("builtin", cs, s2))
                  ELSE call_user(name, cs, s2)

(***************************************************************************)
(* Function declaration (declare.rs)                                       *)
(***************************************************************************)
RECURSIVE declared_names(_, _, _)
declared_names(arguments, i, names) ==
  IF i > Len(arguments) THEN [ok |-> TRUE, names |-> names]
  ELSE IF arguments[i].k = "Variable"
       THEN declared_names(arguments, i + 1, Append(names, arguments[i].name))
       ELSE [ok |-> FALSE, names |-> names]

declare_function(name, arguments, execution, st) ==
  LET ns == declared_names(arguments, 1, <<>>)
  IN IF ~ns.ok THEN Err(<<"only variable supported">>, st)
     ELSE Ok(Null, [st EXCEPT !.reg = add_global(@, name, Function(ns.names, execution))])

(***************************************************************************)
(* Loops (loop_extension.rs)                                               *)
(***************************************************************************)
\* Mutant: Break from the body is not caught.
loop_catch_no_break(ret) ==
  CASE ret.t = "Exit" -> "return"
    [] ret.t = "Return" -> "return"
    [] OTHER -> "next"

\* "Catch special values": what the loop does with the value of its body
loop_catch(ret) ==
  CASE ret.t = "Break" -> "break"
    [] ret.t = "Exit" -> "return"
    [] ret.t = "Return" -> "return"
    [] OTHER -> "next"

\* Mutant: the update statement runs before the value of the body is looked at.
RECURSIVE for_iter_update_first(_, _, _, _)
for_iter_update_first(condition, update, body, st) ==
  LET c == resolve(condition, st)
  IN IF c.r # "ok" THEN c
     ELSE IF ~ToBool(c.v) THEN Ok(Null, c.st)
     ELSE LET ret == resolve(body, c.st)
          IN IF ret.r # "ok" THEN ret
             ELSE LET u == resolve(update, ret.st)
                  IN IF u.r # "ok" THEN u
                     ELSE IF loop_catch(ret.v) = "break" THEN Ok(Null, u.st)
                     ELSE IF loop_catch(ret.v) = "return" THEN Ok(ret.v, u.st)
                     ELSE for_iter_update_first(condition, update, body, u.st)

\* loop { condition; body; catch; update }
RECURSIVE for_iter(_, _, _, _)
for_iter(condition, update, body, st) ==
  LET c == resolve(condition, st)
  IN IF c.r # "ok" THEN c
     ELSE IF ~ToBool(c.v) THEN Ok(Null, c.st)
     ELSE LET ret == resolve(body, c.st)
          IN IF ret.r # "ok" THEN ret
             ELSE IF loop_catch(ret.v) = "break" THEN Ok(Null, ret.st)
             ELSE IF loop_catch(ret.v) = "return" THEN Ok(ret.v, ret.st)
             ELSE LET u == resolve(update, ret.st)
                  IN IF u.r # "ok" THEN u
                     ELSE for_iter(condition, update, body, u.st)

for_loop(assignment, condition, update, body, st) ==
  LET a == resolve(assignment, st)
  IN IF a.r # "ok" THEN a ELSE for_iter(condition, update, body, a.st)

\* Mutant: a loop that ran out of elements resets its variable to Null.
RECURSIVE for_each_iter_clears(_, _, _, _, _)
for_each_iter_clears(iter_name, vec, i, body, st) ==
  IF i > Len(vec)
  THEN Ok(Null, [st EXCEPT !.reg = last_mut_add_named(@, iter_name, Value(Null))])
  ELSE LET s1 == [st EXCEPT !.reg = last_mut_add_named(@, iter_name, Value(vec[i]))]
           ret == resolve(body, s1)
       IN IF ret.r # "ok" THEN ret
          ELSE IF loop_catch(ret.v) = "break" THEN Ok(Null, ret.st)
          ELSE IF loop_catch(ret.v) = "return" THEN Ok(ret.v, ret.st)
          ELSE for_each_iter_clears(iter_name, vec, i + 1, body, ret.st)

\* One iteration: bind the variable in the current frame, run the body,
\* catch the sentinels.
RECURSIVE for_each_iter(_, _, _, _, _)
for_each_iter(iter_name, vec, i, body, st) ==
  IF i > Len(vec) THEN Ok(Null, st)
  ELSE LET s1 == [st EXCEPT !.reg = last_mut_add_named(@, iter_name, Value(vec[i]))]
           ret == resolve(body, s1)
       IN IF ret.r # "ok" THEN ret
          ELSE IF loop_catch(ret.v) = "break" THEN Ok(Null, ret.st)
          ELSE IF loop_catch(ret.v) = "return" THEN Ok(ret.v, ret.st)
          ELSE for_each_iter(iter_name, vec, i + 1, body, ret.st)

\* Mutant: the iterable is evaluated again before every iteration.
RECURSIVE for_each_live(_, _, _, _, _)
for_each_live(variable, iterable, body, i, st) ==
  LET it == resolve(iterable, st)
  IN IF it.r # "ok" THEN it
     ELSE IF i > Len(ToVec(it.v)) THEN Ok(Null, it.st)
     ELSE LET s1 == [it.st EXCEPT
                       !.reg = last_mut_add_named(@, variable, Value(ToVec(it.v)[i]))]
              ret == resolve(body, s1)
          IN IF ret.r # "ok" THEN ret
             ELSE IF loop_catch(ret.v) = "break" THEN Ok(Null, ret.st)
             ELSE IF loop_catch(ret.v) = "return" THEN Ok(ret.v, ret.st)
             ELSE for_each_live(variable, iterable, body, i + 1, ret.st)

for_each_loop_live(variable, iterable, body, st) ==
  for_each_live(variable, iterable, body, 1, st)

\* for val in Vec::from(self.resolve(*iterable)?) { ... }
for_each_loop(variable, iterable, body, st) ==
  LET it == resolve(iterable, st)
  IN IF it.r # "ok" THEN it
     ELSE for_each_iter(variable, ToVec(it.v), 1, body, it.st)

RECURSIVE while_loop(_, _, _)
while_loop(condition, body, st) ==
  LET c == resolve(condition, st)
  IN IF c.r # "ok" THEN c
     ELSE IF ~ToBool(c.v) THEN Ok(Null, c.st)
     ELSE LET ret == resolve(body, c.st)
          IN IF ret.r # "ok" THEN ret
             ELSE IF loop_catch(ret.v) = "break" THEN Ok(Null, ret.st)
             ELSE IF loop_catch(ret.v) = "return" THEN Ok(ret.v, ret.st)
             ELSE while_loop(condition, body, ret.st)

\* Mutant: the condition is tested before the body, as in a while loop.
repeat_loop_condition_first(body, condition, st) == while_loop(condition, body, st)

\* loop { body; catch; condition }
RECURSIVE repeat_loop(_, _, _)
repeat_loop(body, condition, st) ==
  LET ret == resolve(body, st)
  IN IF ret.r # "ok" THEN ret
     ELSE IF loop_catch(ret.v) = "break" THEN Ok(Null, ret.st)
     ELSE IF loop_catch(ret.v) = "return" THEN Ok(ret.v, ret.st)
     ELSE LET c == resolve(condition, ret.st)
          IN IF c.r # "ok" THEN c
             ELSE IF ~ToBool(c.v) THEN Ok(Null, c.st)
             ELSE repeat_loop(body, condition, c.st)


(***************************************************************************)
(* The statement evaluator (interpreter.rs)                                *)
(***************************************************************************)
\* TryFrom<(&str, Token)> for NaslValue
primitive(stmt, st) ==
  CASE stmt.cat = "Number" -> Ok(Number(stmt.lit), st)
    [] stmt.cat = "String" -> Ok(String(stmt.lit), st)
    [] OTHER -> Err(<<"invalid primitive">>, st)

\* Mutant: Continue does not end the block.
block_stops_not_on_continue(v) == v.t \in {"Exit", "Return", "Break"}

\* The sentinels on which a Block returns at once
block_stops(v) == v.t \in {"Exit", "Return", "Break", "Continue"}

RECURSIVE block_iter(_, _, _)
block_iter(blocks, i, st) ==
  IF i > Len(blocks) THEN Ok(Null, st)
  ELSE LET r == resolve(blocks[i], st)
       IN IF r.r # "ok" THEN r
          ELSE IF block_stops(r.v) THEN Ok(r.v, r.st)
          ELSE block_iter(blocks, i + 1, r.st)

\* Parameter(x): array creation
RECURSIVE parameter_iter(_, _, _, _)
parameter_iter(x, i, result, st) ==
  IF i > Len(x) THEN Ok(ArrayV(result), st)
  ELSE LET val == resolve(x[i], st)
       IN IF val.r # "ok" THEN val
          ELSE parameter_iter(x, i + 1, Append(result, val.v), val.st)

variable(name, st) ==
  LET found == named(st.reg, name)
  IN IF found = None THEN Err(<<"variable not found", name>>, st)
     ELSE IF found.d = "Function" THEN Panic(st)
     ELSE Ok(found.v, st)

\* Array(name, position): the position is evaluated only for an Array
\* value; `as usize` makes a negative position an index out of range.
array(stmt, st) ==
  LET val == named(st.reg, stmt.name)
  IN IF val = None THEN Err(<<"not found", stmt.name>>, st)
     ELSE IF ~stmt.has_position /\ val.d = "Value" THEN Ok(val.v, st)
     ELSE IF stmt.has_position /\ val.d = "Value" /\ val.v.t = "Array"
          THEN LET position == resolve(stmt.position, st)
               IN IF position.r # "ok" THEN position
                  ELSE LET n == ToInt(position.v)
                       IN IF ~n.ok THEN Panic(position.st)
                          ELSE IF n.n < 0 \/ n.n >= Len(val.v.a)
                               THEN Err(<<"positiong not found", n.n>>, position.st)
                               ELSE Ok(val.v.a[n.n + 1], position.st)
     ELSE Err(<<"Internal error statement">>, st)

\* Mutant: the operand is coerced to a number as conditions are.
exit_stmt_coerces(stmt, st) ==
  LET rc == resolve(stmt, st)
  IN IF rc.r # "ok" THEN rc
     ELSE IF ToInt(rc.v).ok THEN Ok(ExitV(ToInt(rc.v).n), rc.st)
     ELSE Err(<<"expected numeric value">>, rc.st)

\* Exit(stmt): only a Number makes an Exit
exit_stmt(stmt, st) ==
  LET rc == resolve(stmt, st)
  IN IF rc.r # "ok" THEN rc
     ELSE IF rc.v.t = "Number" THEN Ok(ExitV(rc.v.n), rc.st)
     ELSE Err(<<"expected numeric value">>, rc.st)

return_stmt(stmt, st) ==
  LET rc == resolve(stmt, st)
  IN IF rc.r # "ok" THEN rc ELSE Ok(ReturnV(rc.v), rc.st)

if_stmt(stmt, st) ==
  LET c == resolve(stmt.cond, st)
  IN IF c.r # "ok" THEN c
     ELSE IF ToBool(c.v) THEN resolve(stmt.ifb, c.st)
     ELSE IF stmt.has_else THEN resolve(stmt.elseb, c.st)
     ELSE Ok(Null, c.st)

\* A simple variable target: the value of the right-hand side is written
\* into the current frame and is the value of the assignment.
assign(name, right, st) ==
  LET r == resolve(right, st)
  IN IF r.r # "ok" THEN r
     ELSE Ok(r.v, [r.st EXCEPT !.reg = last_mut_add_named(@, name, Value(r.v))])

\* The match over the statement.  Operator is left to the operator
\* extension, which is not part of these sources.
resolve_arm(stmt, st) ==
  CASE stmt.k = "Array" -> array(stmt, st)
    [] stmt.k = "Exit" -> exit_stmt(stmt.stmt, st)
    [] stmt.k = "Return" -> return_stmt(stmt.stmt, st)
    [] stmt.k = "Include" -> Panic(st)
    [] stmt.k = "NamedParameter" -> Panic(st)
    [] stmt.k = "For" ->
         for_loop(stmt.assignment, stmt.condition, stmt.update, stmt.body, st)
    [] stmt.k = "While" -> while_loop(stmt.condition, stmt.body, st)
    [] stmt.k = "Repeat" -> repeat_loop(stmt.body, stmt.condition, st)
    [] stmt.k = "ForEach" -> for_each_loop(stmt.variable, stmt.iterable, stmt.body, st)
    [] stmt.k = "FunctionDeclaration" ->
         declare_function(stmt.name, stmt.args, stmt.exec, st)
    [] stmt.k = "Primitive" -> primitive(stmt, st)
    [] stmt.k = "Variable" -> variable(stmt.name, st)
    [] stmt.k = "Call" -> call(stmt.name, stmt.arguments, st)
    [] stmt.k = "Parameter" -> parameter_iter(stmt.params, 1, <<>>, st)
    [] stmt.k = "Assign" -> assign(stmt.name, stmt.right, st)
    [] stmt.k = "If" -> if_stmt(stmt, st)
    [] stmt.k = "Block" -> block_iter(stmt.stmts, 1, st)
    [] stmt.k = "NoOp" -> Ok(Null, st)
    [] stmt.k = "Continue" -> Ok(ContinueV, st)
    [] stmt.k = "Break" -> Ok(BreakV, st)
    [] stmt.k = "Declare" -> Panic(st)
    [] stmt.k = "EoF" -> Panic(st)
    [] stmt.k = "AttackCategory" -> Ok(AttackCategoryV(stmt.cat), st)

\* Interpreter::resolve.  An invocation that returns leaves an "exit" event
\* with its result; one that panics or does not terminate leaves none.
resolve(stmt, st) ==
  IF st.fuel = 0 THEN Diverge(st)
  ELSE LET s1 == Log("enter", stmt, [st EXCEPT !.fuel = @ - 1])
           res == resolve_arm(stmt, [s1 EXCEPT !.lvl = @ + 1])
       IN IF ~Returned(res) THEN res
          ELSE LET s2 == [res.st EXCEPT !.lvl = st.lvl]
               IN [res EXCEPT !.st = [s2 EXCEPT !.trace =
                     Append(@, [ev |-> "exit", s |-> stmt, reg |-> s2.reg,
                                lvl |-> s2.lvl, r |-> res.r, v |-> res.v])]]


(***************************************************************************)
(* Scripts: the top-level statements the parser can hand to the driver     *)
(***************************************************************************)
\* function f(a, b) { return [a, b]; }
FnF == Function(<<"a", "b">>, Block(<<Return(Parameter(<<Variable("a"), Variable("b")>>))>>))
\* function anon() { return _FCT_ANON_ARGS; }
FnAnon == Function(<<>>, Block(<<Return(Variable("_FCT_ANON_ARGS"))>>))
\* function outer(x) { return mid(y: 2); }
FnOuter == Function(<<"x">>, Block(<<Return(Call("mid", <<NamedParameter("y", PrimNum(2))>>))>>))
\* function mid(y) { return inner(); }
FnMid == Function(<<"y">>, Block(<<Return(Call("inner", <<>>))>>))
\* function inner() { return x; }
FnInner == Function(<<>>, Block(<<Return(Variable("x"))>>))

\* function mk() { function f() { return 8; } }
FnMk == Function(<<>>, Block(<<FunctionDeclaration("f", <<>>, Block(<<Return(PrimNum(8))>>))>>))
\* function brk() { break; }
FnBrk == Function(<<>>, Block(<<Break>>))

\* function cnt() { continue; }
FnCnt == Function(<<>>, Block(<<Continue>>))
\* function xt() { exit 3; }
FnXt == Function(<<>>, Block(<<Exit(PrimNum(3))>>))
\* function rand() { return 99; }  (declared under the name of a built-in)
FnRand == Function(<<>>, Block(<<Return(PrimNum(99))>>))

Lib ==
  [n \in {"f", "anon", "outer", "mid", "inner", "mk", "brk", "cnt", "xt", "rand"} |->
     CASE n = "f" -> FnF
       [] n = "cnt" -> FnCnt
       [] n = "xt" -> FnXt
       [] n = "rand" -> FnRand
       [] n = "mk" -> FnMk
       [] n = "brk" -> FnBrk
       [] n = "anon" -> FnAnon
       [] n = "outer" -> FnOuter
       [] n = "mid" -> FnMid
       [] n = "inner" -> FnInner]

\* The initial bindings handed to Interpreter::new
Initials == {Lib, insert(Lib, "a", Value(Number(1)))}

TopStmts == {
  Call("nofn", <<>>),
  Call("f", <<>>),
  Call("f", <<PrimNum(5)>>),
  Call("f", <<NamedParameter("b", PrimNum(2)), NamedParameter("z", PrimNum(3))>>),
  Call("outer", <<NamedParameter("x", PrimNum(1))>>),
  Call("g", <<Variable("v")>>),
  Call("mk", <<>>),
  Call("f", <<Assign("q", PrimNum(5)), Variable("nope"), Assign("w", PrimNum(3))>>),
  Call("anon", <<Assign("q", PrimNum(5)), Variable("q")>>),
  FunctionDeclaration("g", <<Variable("p")>>, Block(<<Return(Variable("p"))>>)),
  Assign("v", PrimNum(1)),
  Variable("v"),
  Exit(PrimNum(7)),
  For(Assign("i", PrimNum(1)), Variable("i"), Assign("i", PrimNum(0)), Block(<<NoOp>>)),
  For(Assign("i", PrimNum(1)), Variable("i"), Assign("i", PrimNum(0)),
      Block(<<Continue, Assign("w", PrimNum(3))>>)),
  For(Assign("i", PrimNum(1)), Variable("i"), Assign("i", PrimNum(0)), Block(<<Break>>)) }

\* What the parser yields for one top-level statement
LexOk(stmt) == [ok |-> TRUE, stmt |-> stmt]
LexErr == [ok |-> FALSE, err |-> "TokenError"]
Items == {LexOk(s) : s \in TopStmts} \cup {LexErr}
Scripts == UNION {[1..n -> Items] : n \in 0..MaxScript}

(***************************************************************************)
(* The interpreter and its driver                                          *)
(***************************************************************************)
VARIABLES registrat, lexer, script, results, yielded, before, trace, status
vars == <<registrat, lexer, script, results, yielded, before, trace, status>>

EvalState(reg) == [reg |-> reg, fuel |-> MaxSteps, lvl |-> 0, trace |-> <<>>]

\* Mutant: the driver drops the rest of the script once a statement
\* evaluates to Exit.
next_stops_on_exit(lx, reg) ==
  IF lx = <<>> THEN [some |-> FALSE, lexer |-> lx]
  ELSE LET lr == Head(lx)
           res == IF lr.ok THEN resolve(lr.stmt, EvalState(reg))
                  ELSE Err(<<"parse error", lr.err>>, EvalState(reg))
       IN [some |-> TRUE,
           lexer |-> IF res.r = "ok" /\ res.v.t = "Exit" THEN <<>> ELSE Tail(lx),
           res |-> res]

\* Mutant: a parse error is swallowed and Null is yielded for it.
next_swallows_parse_error(lx, reg) ==
  IF lx = <<>> THEN [some |-> FALSE, lexer |-> lx]
  ELSE LET lr == Head(lx)
       IN [some |-> TRUE, lexer |-> Tail(lx),
           res |-> IF lr.ok THEN resolve(lr.stmt, EvalState(reg))
                   ELSE Ok(Null, EvalState(reg))]

\* Iterator::next: self.lexer.next().map(|lr| match lr { Ok(stmt) =>
\* self.resolve(stmt), Err(err) => Err(InterpretError::from(err)) })
next(lx, reg) ==
  IF lx = <<>> THEN [some |-> FALSE, lexer |-> lx]
  ELSE LET lr == Head(lx)
       IN [some |-> TRUE, lexer |-> Tail(lx),
           res |-> IF lr.ok THEN resolve(lr.stmt, EvalState(reg))
                   ELSE Err(<<"parse error", lr.err>>, EvalState(reg))]

NotPulled == [some |-> FALSE, pulled |-> FALSE]
Nothing == [some |-> FALSE, pulled |-> TRUE]
Some(res) == [some |-> TRUE, r |-> res.r, v |-> res.v]

\* Interpreter::new
Init ==
  /\ \E initial \in Initials : registrat = create_root(<<>>, initial)
  /\ script \in Scripts
  /\ lexer = script
  /\ results = <<>>
  /\ yielded = NotPulled
  /\ before = <<>>
  /\ trace = <<>>
  /\ status = "running"

Yield(n) ==
  /\ lexer' = n.lexer
  /\ before' = registrat
  /\ registrat' = n.res.st.reg
  /\ trace' = n.res.st.trace
  /\ IF Returned(n.res)
     THEN /\ yielded' = Some(n.res)
          /\ results' = Append(results, Some(n.res))
          /\ status' = "running"
     ELSE /\ yielded' = yielded
          /\ results' = results
          /\ status' = n.res.r
  /\ UNCHANGED script

\* A pull for which the parser has a statement
NextStatement ==
  /\ status = "running"
  /\ lexer # <<>> /\ Head(lexer).ok
  /\ Yield(next(lexer, registrat))

\* A pull for which the parser has an error
NextParseError ==
  /\ status = "running"
  /\ lexer # <<>> /\ ~Head(lexer).ok
  /\ Yield(next(lexer, registrat))

\* A pull after the parser is exhausted
NextNone ==
  /\ status = "running"
  /\ LET n == next(lexer, registrat)
     IN /\ ~n.some
        /\ lexer' = n.lexer
        /\ yielded' = Nothing
        /\ UNCHANGED <<registrat, script, results, before, trace, status>>

Next == NextStatement \/ NextParseError \/ NextNone

Spec == Init /\ [][Next]_vars


(***************************************************************************)
(* Reading the evaluation history                                          *)
(***************************************************************************)
Enters(tr) == {i \in DOMAIN tr : tr[i].ev = "enter"}

\* The exit event of the resolve invocation entered at i (0: it never returned)
Match(tr, i) ==
  LET js == {j \in DOMAIN tr : j > i /\ tr[j].ev = "exit" /\ tr[j].lvl = tr[i].lvl}
  IN IF js = {} THEN 0 ELSE CHOOSE j \in js : \A m \in js : j <= m

\* The events of kind ev that the invocation entered at i produced itself,
\* between positions i and j, in order
Direct(tr, i, j, ev) ==
  SelectSeq(SubSeq(tr, i + 1, j - 1), LAMBDA e : e.ev = ev /\ e.lvl = tr[i].lvl + 1)

\* The invocation of resolve that pushed the frame of the push event at j
CallSite(tr, j) ==
  CHOOSE i \in Enters(tr) :
    /\ i < j /\ tr[i].lvl + 1 = tr[j].lvl
    /\ \A m \in Enters(tr) : (m < j /\ tr[m].lvl + 1 = tr[j].lvl) => m <= i

Root(reg) == reg[1]

(***************************************************************************)
(* Claims                                                                  *)
(***************************************************************************)
\* C1: whenever an invocation of resolve returns, with a value or with an
\* error, the register holds as many frames as when it was entered.
C1_ScopeBalance ==
  \A i \in Enters(trace) :
    LET j == Match(trace, i)
    IN j # 0 => Len(trace[j].reg) = Len(trace[i].reg)

\* C2: after the driver yields an error for a top-level statement, the
\* current frame of the register is the root frame again.
C2_UnwoundAfterError ==
  (yielded.some /\ yielded.r = "err") =>
     (last(registrat).id = 0 /\ last(registrat).parent = NoParent)


\* The name is bound in a frame that is neither the current frame nor the
\* root, and in neither of those two
BoundOnlyInOtherFrames(reg, name) ==
  /\ name \notin DOMAIN last(reg).named
  /\ name \notin DOMAIN Root(reg).named
  /\ \E k \in 2..(Len(reg) - 1) : name \in DOMAIN reg[k].named

\* C3: inside a function body, a variable that is bound only in a non-root
\* frame of a caller is not found, at any nesting depth of calls: the
\* parent of every call frame is the root.
C3_CalleeIsolation ==
  \A i \in DOMAIN trace :
    LET e == trace[i]
    IN /\ (e.ev = "body") => (last(e.reg).parent = 0 /\ last(e.reg).id = Len(e.reg) - 1)
       /\ (e.ev = "enter" /\ e.s.k = "Variable" /\ BoundOnlyInOtherFrames(e.reg, e.s.name))
            => LET j == Match(trace, i)
               IN /\ j # 0
                  /\ trace[j].r = "err"
                  /\ trace[j].v.reason = <<"variable not found", e.s.name>>

C3_Witness ==
  \E i \in Enters(trace) :
    /\ trace[i].s.k = "Variable"
    /\ Len(trace[i].reg) >= 4
    /\ BoundOnlyInOtherFrames(trace[i].reg, trace[i].s.name)
    /\ yielded.some /\ yielded.r = "err"

\* The values of the positional arguments among the argument results
RECURSIVE PositionalValues(_, _, _)
PositionalValues(params, exits, k) ==
  IF k > Len(params) THEN <<>>
  ELSE IF params[k].k = "NamedParameter" THEN PositionalValues(params, exits, k + 1)
  ELSE <<exits[k].v>> \o PositionalValues(params, exits, k + 1)

NamedArgs(cs) ==
  {cs.arguments.params[k].name :
     k \in {m \in DOMAIN cs.arguments.params : cs.arguments.params[m].k = "NamedParameter"}}

\* C4: every frame the call dispatcher pushes binds _FCT_ANON_ARGS to the
\* array of the values of the positional arguments, in call-site order,
\* also when a named argument of that name is passed.
C4_AnonArgs ==
  \A j \in DOMAIN trace :
    trace[j].ev = "push" =>
      LET i == CallSite(trace, j)
          exits == Direct(trace, i, j, "exit")
          params == trace[j].s.arguments.params
          frame == last(trace[j].reg).named
      IN /\ trace[i].s = trace[j].s
         /\ Len(exits) = Len(params)
         /\ "_FCT_ANON_ARGS" \in DOMAIN frame
         /\ frame["_FCT_ANON_ARGS"] = Value(ArrayV(PositionalValues(params, exits, 1)))

C4_Witness ==
  \E j \in DOMAIN trace :
    /\ trace[j].ev = "push"
    /\ "_FCT_ANON_ARGS" \in NamedArgs(trace[j].s)
    /\ last(trace[j].reg).named["_FCT_ANON_ARGS"] = Value(ArrayV(<<Number(1), Number(23)>>))

\* The parameters declared for the function that a body event is about
DeclaredParams(e) == named(e.reg, e.s.name).params

\* C5: in every call of a user-defined function, each declared parameter
\* that the call site does not pass by name evaluates to Null in the body.
C5_DefaultNull ==
  \A i \in DOMAIN trace :
    trace[i].ev = "body" =>
      \A k \in DOMAIN DeclaredParams(trace[i]) :
        LET p == DeclaredParams(trace[i])[k]
        IN p \notin NamedArgs(trace[i].s) => named(trace[i].reg, p) = Value(Null)

\* C6: in a call with positional arguments only every declared parameter
\* is Null in the body, and every named argument of a call is bound under
\* its name in the call frame.
C6_PositionalNotBound ==
  \A i \in DOMAIN trace :
    /\ (trace[i].ev = "body" /\ NamedArgs(trace[i].s) = {}
          /\ trace[i].s.arguments.params # <<>>)
         => \A k \in DOMAIN DeclaredParams(trace[i]) :
              named(trace[i].reg, DeclaredParams(trace[i])[k]) = Value(Null)
    /\ (trace[i].ev = "push")
         => \A n \in NamedArgs(trace[i].s) \ {"_FCT_ANON_ARGS"} :
              n \in DOMAIN last(trace[i].reg).named


\* The statements and the results of the invocations that the invocation
\* entered at i made itself
Children(tr, i) == Direct(tr, i, Match(tr, i), "enter")
ChildResults(tr, i) == Direct(tr, i, Match(tr, i), "exit")

\* C7: a Block evaluates its children in order and stops at the first one
\* whose value is Return, Exit, Break or Continue: it yields that value,
\* the later children are not evaluated and leave the register as it was;
\* with no such child it evaluates all of them and yields Null.
C7_BlockShortCircuit ==
  \A i \in Enters(trace) :
    (trace[i].s.k = "Block" /\ Match(trace, i) # 0) =>
      LET x == trace[Match(trace, i)]
          ch == Children(trace, i)
          rs == ChildResults(trace, i)
          stmts == trace[i].s.stmts
      IN /\ Len(ch) <= Len(stmts)
         /\ \A m \in DOMAIN ch : ch[m].s = stmts[m]
         /\ \A m \in DOMAIN rs : m < Len(rs) => (rs[m].r = "ok" /\ ~IsControl(rs[m].v))
         /\ x.r = "ok" =>
              /\ Len(rs) = Len(ch)
              /\ IF rs # <<>> /\ IsControl(rs[Len(rs)].v)
                 THEN x.v = rs[Len(rs)].v /\ x.reg = rs[Len(rs)].reg
                 ELSE Len(rs) = Len(stmts) /\ x.v = Null

C7_Witness ==
  \E i \in Enters(trace) :
    /\ trace[i].s.k = "Block" /\ Match(trace, i) # 0
    /\ trace[Match(trace, i)].r = "ok"
    /\ trace[Match(trace, i)].v = ContinueV
    /\ Len(Children(trace, i)) < Len(trace[i].s.stmts)

IsLoop(s) == s.k \in {"For", "While", "Repeat", "ForEach"}

\* C8: a loop never yields Break or Continue.  Break from the body ends it
\* with Null, Return or Exit from the body ends it at once and is its
\* value, Continue from the body does not end it, and a loop that ends in
\* any other way yields Null.
C8_LoopConsumesBreakContinue ==
  \A i \in Enters(trace) :
    (IsLoop(trace[i].s) /\ Match(trace, i) # 0 /\ trace[Match(trace, i)].r = "ok") =>
      LET x == trace[Match(trace, i)]
          rs == ChildResults(trace, i)
          Ends(m) == rs[m].s = trace[i].s.body /\ rs[m].v.t \in {"Break", "Return", "Exit"}
      IN /\ x.v.t \notin {"Break", "Continue"}
         /\ \A m \in DOMAIN rs : Ends(m) => m = Len(rs)
         /\ IF rs # <<>> /\ Ends(Len(rs)) /\ rs[Len(rs)].v.t # "Break"
            THEN x.v = rs[Len(rs)].v
            ELSE x.v = Null
         /\ \A m \in DOMAIN rs :
              (rs[m].s = trace[i].s.body /\ rs[m].v = ContinueV)
                 => (m < Len(rs) \/ trace[i].s.k = "ForEach")

C8_Witness ==
  \E i \in Enters(trace) :
    /\ IsLoop(trace[i].s) /\ Match(trace, i) # 0
    /\ LET rs == ChildResults(trace, i)
       IN /\ \E m \in DOMAIN rs : m < Len(rs) /\ rs[m].v = ContinueV
          /\ rs[Len(rs)].v = BreakV
          /\ trace[Match(trace, i)].v = Null


IsExit(y) == y.r = "ok" /\ y.v.t = "Exit"

\* C9: the driver yields Exit(n) as an ordinary value and does not stop:
\* after it the parser still holds every statement that follows, and the
\* later pulls evaluate them until the parser is exhausted.
C9_ExitDoesNotStop ==
  /\ (status = "running" /\ yielded.some /\ trace # <<>> /\ trace[Len(trace)].r = "ok"
        /\ trace[Len(trace)].v.t = "Exit")
       => (yielded.r = "ok" /\ yielded.v = trace[Len(trace)].v)
  /\ (status = "running" /\ \E i \in DOMAIN results : IsExit(results[i]))
       => /\ lexer = SubSeq(script, Len(results) + 1, Len(script))
          /\ yielded = Nothing => Len(results) = Len(script)

C9_Witness ==
  /\ Len(results) = 2 /\ IsExit(results[1])
  /\ script[2].ok /\ trace # <<>> /\ trace[1].s = script[2].stmt
  /\ lexer = <<>>

ParseError(item) ==
  [some |-> TRUE, r |-> "err", v |-> [t |-> "Error", reason |-> <<"parse error", item.err>>]]

\* C10: each pull takes one top-level statement from the parser and yields
\* one result for it, in source order; a parse error is yielded wrapped and
\* nothing is evaluated for it; once the parser is exhausted a pull yields
\* nothing, so a script of n statements yields n results.
C10_OneResultPerStatement ==
  status = "running" =>
    /\ Len(results) <= Len(script)
    /\ lexer = SubSeq(script, Len(results) + 1, Len(script))
    /\ \A i \in DOMAIN results : ~script[i].ok => results[i] = ParseError(script[i])
    /\ yielded.some =>
         /\ results # <<>> /\ yielded = results[Len(results)]
         /\ IF script[Len(results)].ok
            THEN /\ trace # <<>>
                 /\ trace[1].s = script[Len(results)].stmt
                 /\ trace[1].reg = before
                 /\ Cardinality({i \in Enters(trace) : trace[i].lvl = 0}) = 1
                 /\ Match(trace, 1) = Len(trace)
                 /\ yielded = [some |-> TRUE, r |-> trace[Len(trace)].r,
                               v |-> trace[Len(trace)].v]
            ELSE trace = <<>> /\ registrat = before
    /\ yielded = NotPulled => results = <<>>
    /\ yielded = Nothing => (lexer = <<>> /\ Len(results) = Len(script))

C10_Witness ==
  /\ yielded = Nothing /\ Len(results) = 2 /\ Len(script) = 2
  /\ ~script[1].ok /\ script[2].ok
  /\ results[1] = ParseError(script[1]) /\ results[2].r = "ok"


\* The parameter names of a declaration whose arguments are all variables
DeclNames(s) == [k \in DOMAIN s.args |-> s.args[k].name]

\* C11: a function declaration binds name -> Function(parameter names,
\* body) in frame 0 whatever the current frame is, overwriting a binding of
\* that name, leaves every other frame as it was and evaluates to Null; a
\* declaration made inside a function body outlives the call.
C11_DeclareInRoot ==
  \A i \in Enters(trace) :
    (trace[i].s.k = "FunctionDeclaration" /\ Match(trace, i) # 0
       /\ \A k \in DOMAIN trace[i].s.args : trace[i].s.args[k].k = "Variable") =>
      LET e == trace[i]
          x == trace[Match(trace, i)]
      IN /\ x.r = "ok" /\ x.v = Null
         /\ Len(x.reg) = Len(e.reg)
         /\ Root(x.reg).named =
              insert(Root(e.reg).named, e.s.name, Function(DeclNames(e.s), e.s.exec))
         /\ \A k \in 2..Len(e.reg) : x.reg[k] = e.reg[k]
         /\ (Len(e.reg) > Len(before) /\ yielded.some /\ yielded.r = "ok")
              => named(registrat, e.s.name) = Function(DeclNames(e.s), e.s.exec)

\* mk() declared f inside its body; the next statement calls that f.
C11_Witness ==
  /\ Len(results) = 2 /\ results[1].r = "ok"
  /\ script[1].stmt = Call("mk", <<>>)
  /\ \E i \in Enters(trace) : trace[i].s.k = "Call" /\ trace[i].s.name = "f"
  /\ yielded.some /\ yielded.r = "ok" /\ yielded.v = Number(8)
  /\ Root(registrat).named["f"] = Function(<<>>, Block(<<Return(PrimNum(8))>>))


\* The body events of the call entered at i (at most one)
BodyEvents(tr, i) ==
  {b \in DOMAIN tr : /\ b > i /\ tr[b].ev = "body" /\ tr[b].lvl = tr[i].lvl + 1
                     /\ (Match(tr, i) = 0 \/ b < Match(tr, i))
                     /\ CallSite(tr, b) = i}

\* The exit event of the function body started at body event b (0: the body
\* never returned)
BodyExit(tr, b) ==
  IF b + 1 \in Enters(tr) /\ tr[b + 1].lvl = tr[b].lvl THEN Match(tr, b + 1) ELSE 0

\* C14: a call of a user-defined function whose body yields Return(v)
\* yields v; a body value of any other kind is the value of the call.
C14_ReturnUnwrapped ==
  \A i \in Enters(trace) :
    \A b \in BodyEvents(trace, i) :
      LET bx == BodyExit(trace, b)
          j == Match(trace, i)
      IN (bx # 0 /\ trace[bx].r = "ok") =>
           /\ j # 0 /\ trace[j].r = "ok"
           /\ trace[bx].v.t = "Return" => trace[j].v = trace[bx].v.v
           /\ trace[bx].v.t # "Return" => trace[j].v = trace[bx].v

\* One call whose body yielded Return(v) and one whose body yielded a bare
\* Break have returned.
C14_Witness ==
  /\ \E i \in Enters(trace) : \E b \in BodyEvents(trace, i) :
       /\ BodyExit(trace, b) # 0
       /\ trace[BodyExit(trace, b)].r = "ok"
       /\ trace[BodyExit(trace, b)].v.t = "Return"
       /\ trace[Match(trace, i)].v = trace[BodyExit(trace, b)].v.v
  /\ \E i \in Enters(trace) : \E b \in BodyEvents(trace, i) :
       /\ BodyExit(trace, b) # 0
       /\ trace[BodyExit(trace, b)].r = "ok"
       /\ trace[BodyExit(trace, b)].v = BreakV
       /\ trace[Match(trace, i)].v = BreakV


\* C15: no value that an invocation of resolve returns is a Return whose
\* payload is a control sentinel (Return, Break, Continue or Exit).
C15_ReturnWrapsNonControl ==
  \A j \in DOMAIN trace :
    (trace[j].ev = "exit" /\ trace[j].r = "ok" /\ trace[j].v.t = "Return")
      => ~IsControl(trace[j].v.v)

\* The value holds no array with a control sentinel among its elements
RECURSIVE NoSentinelInside(_)
NoSentinelInside(v) ==
  CASE v.t = "Array" ->
         \A k \in DOMAIN v.a : ~IsControl(v.a[k]) /\ NoSentinelInside(v.a[k])
    [] v.t = "Return" -> NoSentinelInside(v.v)
    [] OTHER -> TRUE

\* Every value bound in a frame of the register holds no such array
FramesHoldNoSentinel(reg) ==
  \A k \in DOMAIN reg : \A n \in DOMAIN reg[k].named :
    reg[k].named[n].d = "Value" => NoSentinelInside(reg[k].named[n].v)

\* C16: no array that evaluation produces, and no array bound in a frame
\* (the positional-argument array _FCT_ANON_ARGS included), has a Return,
\* Break, Continue or Exit element.
C16_ArraysHoldNoSentinel ==
  \A j \in DOMAIN trace :
    /\ FramesHoldNoSentinel(trace[j].reg)
    /\ (trace[j].ev = "exit" /\ trace[j].r = "ok") => NoSentinelInside(trace[j].v)

\* C17: a variable reference whose name is bound to a Function returns an
\* error as a result and leaves the register as it was; the interpreter
\* does not abort.
C17_FunctionAsVariableIsError ==
  \A i \in Enters(trace) :
    (trace[i].s.k = "Variable" /\ named(trace[i].reg, trace[i].s.name) # None
       /\ named(trace[i].reg, trace[i].s.name).d = "Function") =>
      /\ status # "panic"
      /\ Match(trace, i) # 0
      /\ trace[Match(trace, i)].r = "err"
      /\ trace[Match(trace, i)].reg = trace[i].reg


\* The call that pushed at j is one of: a built-in; a name that resolves
\* to a binding that is not a function; a user-defined function whose body
\* returned a value.
CompletesWithoutBodyError(tr, j) ==
  LET callee == named(tr[j].reg, tr[j].s.name)
      bs == BodyEvents(tr, CallSite(tr, j))
  IN \/ tr[j].s.name \in BuiltIns
     \/ callee # None /\ callee.d = "Value"
     \/ \E b \in bs : BodyExit(tr, b) # 0 /\ tr[BodyExit(tr, b)].r = "ok"

\* C18: a call that completes without an error from a user-defined body
\* returns with its frame popped: the frames are those below the pushed
\* frame and the current frame is the one of the call site.
C18_FramePopped ==
  \A j \in DOMAIN trace :
    (trace[j].ev = "push" /\ CompletesWithoutBodyError(trace, j)) =>
      LET i == CallSite(trace, j)
          x == Match(trace, i)
      IN /\ x # 0
         /\ Len(trace[x].reg) = Len(trace[j].reg) - 1
         /\ Len(trace[x].reg) = Len(trace[i].reg)
         /\ \A k \in DOMAIN trace[x].reg : trace[x].reg[k].id = trace[j].reg[k].id
         /\ last(trace[x].reg).id = last(trace[i].reg).id

\* brk() was called: its body yielded the sentinel Break and the call
\* returned with the frame popped.
C18_Witness ==
  \E j \in DOMAIN trace :
    /\ trace[j].ev = "push" /\ trace[j].s.name = "brk"
    /\ \E b \in BodyEvents(trace, CallSite(trace, j)) :
         BodyExit(trace, b) # 0 /\ trace[BodyExit(trace, b)].v = BreakV
    /\ Match(trace, CallSite(trace, j)) # 0
    /\ Len(trace[Match(trace, CallSite(trace, j))].reg) = Len(trace[j].reg) - 1

\* A call whose name resolves to a value returned its error.
C18_NonFunctionCase ==
  \E j \in DOMAIN trace :
    /\ trace[j].ev = "push" /\ named(trace[j].reg, trace[j].s.name) # None
    /\ named(trace[j].reg, trace[j].s.name).d = "Value"
    /\ Match(trace, CallSite(trace, j)) # 0
    /\ trace[Match(trace, CallSite(trace, j))].r = "err"

\* A built-in returned an error.
C18_BuiltInErrorCase ==
  \E j \in DOMAIN trace :
    /\ trace[j].ev = "push" /\ trace[j].s.name \in BuiltIns
    /\ Match(trace, CallSite(trace, j)) # 0
    /\ trace[Match(trace, CallSite(trace, j))].r = "err"


\* The position after the last event of the invocation entered at i
End(tr, i) == IF Match(tr, i) = 0 THEN Len(tr) + 1 ELSE Match(tr, i)

\* The push event of the call entered at i (0: the call pushed no frame)
PushOf(tr, i) ==
  LET js == {j \in DOMAIN tr : /\ j > i /\ j < End(tr, i) /\ tr[j].ev = "push"
                               /\ tr[j].lvl = tr[i].lvl + 1}
  IN IF js = {} THEN 0 ELSE CHOOSE j \in js : \A m \in js : j <= m

\* The expression of a call argument
ArgExpr(p) == IF p.k = "NamedParameter" THEN p.val ELSE p

\* C19: the arguments of a call are evaluated in call-site order, each in
\* the frame that is current at the call site, and the callee frame is
\* pushed after all of them, on top of the frames the arguments left; when
\* an argument fails no later argument is evaluated, no frame is pushed,
\* no body is run and the failure is the result of the call.
C19_ArgumentsBeforePush ==
  \A i \in Enters(trace) :
    (trace[i].s.k = "Call" /\ trace[i].s.arguments.k = "Parameter") =>
      LET params == trace[i].s.arguments.params
          j == PushOf(trace, i)
          upto == IF j = 0 THEN End(trace, i) ELSE j
          ens == Direct(trace, i, upto, "enter")
          exs == Direct(trace, i, upto, "exit")
          failed == {k \in DOMAIN exs : exs[k].r = "err"}
      IN /\ Len(ens) <= Len(params)
         /\ \A k \in DOMAIN ens :
              /\ ens[k].s = ArgExpr(params[k])
              /\ Len(ens[k].reg) = Len(trace[i].reg)
              /\ last(ens[k].reg).id = last(trace[i].reg).id
         /\ j # 0 =>
              /\ Len(exs) = Len(params)
              /\ failed = {}
              /\ SubSeq(trace[j].reg, 1, Len(trace[j].reg) - 1) =
                   (IF exs = <<>> THEN trace[i].reg ELSE exs[Len(exs)].reg)
         /\ failed # {} =>
              /\ j = 0
              /\ failed = {Len(exs)} /\ Len(ens) = Len(exs)
              /\ BodyEvents(trace, i) = {}
              /\ Match(trace, i) # 0
              /\ trace[Match(trace, i)].r = "err"
              /\ trace[Match(trace, i)].v = exs[Len(exs)].v
              /\ trace[Match(trace, i)].reg = exs[Len(exs)].reg

\* anon(q = 5, q) returned [5, 5]: the second argument read what the first
\* one wrote; then in f(q = 5, nope, w = 3) the second argument failed
\* after the first one wrote q into the caller's frame: w was never
\* written and no frame was pushed.
C19_Witness ==
  /\ Len(results) = 2 /\ script[1].ok /\ script[2].ok
  /\ script[1].stmt = Call("anon", <<Assign("q", PrimNum(5)), Variable("q")>>)
  /\ results[1].r = "ok" /\ results[1].v = ArrayV(<<Number(5), Number(5)>>)
  /\ script[2].stmt =
       Call("f", <<Assign("q", PrimNum(5)), Variable("nope"), Assign("w", PrimNum(3))>>)
  /\ yielded.some /\ yielded.r = "err"
  /\ Len(Direct(trace, 1, End(trace, 1), "enter")) = 2
  /\ PushOf(trace, 1) = 0
  /\ "q" \in DOMAIN last(registrat).named
  /\ "w" \notin DOMAIN last(registrat).named
  /\ Len(registrat) = 1


\* The part of a for statement that its k-th evaluation of a child is for
ForRole(k) ==
  IF k = 1 THEN "assignment"
  ELSE CASE (k - 2) % 3 = 0 -> "condition"
         [] (k - 2) % 3 = 1 -> "body"
         [] OTHER -> "update"

ForPart(s, k) ==
  CASE ForRole(k) = "assignment" -> s.assignment
    [] ForRole(k) = "condition" -> s.condition
    [] ForRole(k) = "body" -> s.body
    [] OTHER -> s.update

EndsLoop(v) == v.t \in {"Break", "Return", "Exit"}

\* C20: a for loop evaluates its assignment once and first, then
\* condition, body, update in rounds; a body is evaluated only after a
\* condition that coerced to true, an update only after a body that
\* yielded neither Break nor Return nor Exit, and a loop that returned a
\* value stopped at a false condition or at such a body value.
C20_ForOrder ==
  \A i \in Enters(trace) :
    trace[i].s.k = "For" =>
      LET s == trace[i].s
          ens == Direct(trace, i, End(trace, i), "enter")
          exs == Direct(trace, i, End(trace, i), "exit")
          n == Len(exs)
      IN /\ \A k \in DOMAIN ens :
              /\ ens[k].s = ForPart(s, k)
              /\ k > 1 => (k - 1 <= n /\ exs[k - 1].r = "ok")
              /\ ForRole(k) = "body" => ToBool(exs[k - 1].v)
              /\ ForRole(k) = "update" => ~EndsLoop(exs[k - 1].v)
         /\ (Match(trace, i) # 0 /\ trace[Match(trace, i)].r = "ok") =>
              /\ n = Len(ens) /\ n >= 2 /\ exs[n].r = "ok"
              /\ ForRole(n) \in {"condition", "body"}
              /\ ForRole(n) = "condition" => ~ToBool(exs[n].v)
              /\ ForRole(n) = "body" => EndsLoop(exs[n].v)

\* A for loop whose body broke returned after assignment, condition and
\* body; the next one ran its update after a body that yielded Continue
\* and ended at the false condition that followed.
C20_Witness ==
  /\ Len(results) = 2 /\ script[1].ok /\ script[2].ok
  /\ script[1].stmt =
       For(Assign("i", PrimNum(1)), Variable("i"), Assign("i", PrimNum(0)), Block(<<Break>>))
  /\ results[1].r = "ok" /\ results[1].v = Null
  /\ trace[1].s.k = "For" /\ Match(trace, 1) # 0
  /\ LET exs == Direct(trace, 1, End(trace, 1), "exit")
     IN /\ Len(exs) = 5
        /\ exs[3].v = ContinueV
        /\ ~ToBool(exs[5].v)
  /\ "w" \notin DOMAIN last(registrat).named


(***************************************************************************)
(* The register on its own: any sequence of its public operations         *)
(***************************************************************************)
\* The lookup of NaslContext::named from the frame at index ix, with the
\* indices it visits.  Indexing blocks beyond its length panics; a walk of
\* more steps than there are frames has come back to a frame it visited
\* and goes on forever.
RECURSIVE named_walk(_, _, _, _)
named_walk(ix, blocks, name, path) ==
  LET ctx == blocks[ix + 1]
      visited == Append(path, ix)
  IN IF name \in DOMAIN ctx.named
     THEN [r |-> "found", v |-> ctx.named[name], path |-> visited]
     ELSE IF ctx.parent = NoParent
          THEN [r |-> "none", v |-> None, path |-> visited]
          ELSE IF ctx.parent >= Len(blocks)
               THEN [r |-> "panic", v |-> None, path |-> visited]
               ELSE IF Len(visited) > Len(blocks)
                    THEN [r |-> "diverge", v |-> None, path |-> visited]
                    ELSE named_walk(ctx.parent, blocks, name, visited)

\* The names and the bindings the operations are called with
RegNames == {"x", "y"}
RegBindings == {EmptyNamed, insert(EmptyNamed, "x", Value(Null))}

\* Register::new
RegInit ==
  /\ registrat = <<>>
  /\ script = <<>> /\ lexer = <<>> /\ results = <<>> /\ before = <<>>
  /\ yielded = NotPulled
  /\ trace = <<>>
  /\ status = "register"

\* What every operation other than a lookup leaves behind
RegDone(blocks) ==
  /\ registrat' = blocks
  /\ before' = registrat
  /\ yielded' = Nothing
  /\ trace' = <<>>
  /\ UNCHANGED <<script, lexer, results, status>>

RegCreateRoot ==
  /\ status = "register" /\ Len(registrat) < MaxFrames
  /\ \E initial \in RegBindings : RegDone(create_root(registrat, initial))

\* The parent is a context of another register (this one is mutably
\* borrowed for the call), so its id is any index.
RegCreateChild ==
  /\ status = "register" /\ Len(registrat) < MaxFrames
  /\ \E pid \in 0..(MaxFrames - 1) : \E nmd \in RegBindings :
       RegDone(create_child(registrat, [id |-> pid], nmd))

RegCreateRootChild ==
  /\ status = "register" /\ Len(registrat) < MaxFrames
  /\ \E nmd \in RegBindings : RegDone(create_root_child(registrat, nmd))

\* blocks[0] of an empty register panics
RegAddGlobal ==
  /\ status = "register"
  /\ IF registrat = <<>>
     THEN /\ status' = "panic"
          /\ UNCHANGED <<registrat, script, lexer, results, before, yielded, trace>>
     ELSE \E name \in RegNames :
            RegDone(add_global(registrat, name, Value(Number(1))))

RegDropLast ==
  /\ status = "register"
  /\ RegDone(drop_last(registrat))

\* Register::named: last().unwrap() of an empty register panics.  The
\* name looked up is kept in script, the frames visited in trace.
RegNamed ==
  /\ status = "register"
  /\ IF registrat = <<>>
     THEN /\ status' = "panic"
          /\ UNCHANGED <<registrat, script, lexer, results, before, yielded, trace>>
     ELSE \E name \in RegNames :
            LET w == named_walk(Len(registrat) - 1, registrat, name, <<>>)
            IN /\ yielded' = Some(w)
               /\ trace' = w.path
               /\ status' = IF w.r \in {"found", "none"} THEN "register" ELSE w.r
               /\ before' = registrat
               /\ script' = <<name>>
               /\ UNCHANGED <<registrat, lexer, results>>

RegNext ==
  \/ RegCreateRoot \/ RegCreateRootChild \/ RegCreateChild
  \/ RegAddGlobal \/ RegDropLast \/ RegNamed

RegSpec == RegInit /\ [][RegNext]_vars

\* C12: in every register that the operations of Register can build, a
\* lookup from the current frame returns a binding or none after visiting
\* frames at strictly decreasing indices.
C12_LookupDescends ==
  yielded.some =>
    /\ yielded.r \in {"found", "none"}
    /\ \A k \in 1..(Len(trace) - 1) : trace[k + 1] < trace[k]

\* C13: after any sequence of register operations at most one frame has
\* no parent, and that frame is the one at index 0.
C13_SingleRoot ==
  \A k \in DOMAIN registrat : registrat[k].parent = NoParent => k = 1


(***************************************************************************)
(* Scripts of one statement over a register with variables of every kind   *)
(***************************************************************************)
\* The initial bindings: the functions of Lib and one variable per kind
Vals ==
  [x \in (DOMAIN Lib) \cup {"n", "s", "t", "z", "arr", "d"} |->
     CASE x = "n" -> Value(Number(2))
       [] x = "s" -> Value(String(<<"x", "y">>))
       [] x = "t" -> Value(Boolean(TRUE))
       [] x = "z" -> Value(Null)
       [] x = "arr" -> Value(ArrayV(<<Number(1), Number(2)>>))
       [] x = "d" -> Value(DictV(insert(EmptyNamed, "k", Number(6))))
       [] OTHER -> Lib[x]]

StmtInitials ==
  {Vals, insert(insert(Vals, "e", Value(Number(7))), "a", Value(Number(1)))}

Exprs == {
  Exit(Variable("n")),
  Exit(PrimNum(0)),
  Exit(Variable("s")),
  Exit(Variable("t")),
  Exit(Variable("z")),
  Exit(Variable("arr")),
  Exit(Variable("d")),
  Exit(Exit(PrimNum(1))),
  Exit(Return(PrimNum(1))),
  Exit(Break),
  Exit(Continue),
  Exit(Variable("nope")),
  ForEach("e", Parameter(<<PrimNum(0), PrimNum(1), PrimNum(2)>>),
          Block(<<IfElse(Variable("e"), Break, Continue), Assign("w", PrimNum(3))>>)),
  ForEach("e", Variable("s"), Block(<<Return(Variable("e"))>>)),
  ForEach("e", Parameter(<<>>), Block(<<Assign("w", PrimNum(3))>>)),
  ForEach("e", Variable("z"), Block(<<Assign("w", PrimNum(3))>>)),
  ForEach("e", Variable("n"), Block(<<NoOp>>)),
  ForEach("e", Variable("d"), Block(<<NoOp>>)),
  ForEach("e", Variable("arr"), Block(<<NoOp>>)),
  ForEach("e", Variable("nope"), Block(<<NoOp>>)),
  Block(<<ForEach("u", Parameter(<<>>), Block(<<Assign("w", PrimNum(3))>>)),
          Assign("v", Parameter(<<PrimNum(1), PrimNum(2)>>)),
          ForEach("e", Variable("v"),
                  Block(<<Assign("v", PrimNum(0)), Assign("e", PrimNum(9))>>))>>),
  ForEach("e", Variable("arr"), Block(<<Call("brk", <<>>), Assign("w", PrimNum(3))>>)),
  While(PrimNum(1), Block(<<Call("brk", <<>>), Assign("w", PrimNum(3))>>)),
  Block(<<While(PrimNum(1), Block(<<Call("brk", <<>>), Assign("w", PrimNum(3))>>)),
          Assign("c", PrimNum(1)),
          While(Variable("c"),
                Block(<<Assign("c", PrimNum(0)), Call("cnt", <<>>), Assign("w", PrimNum(3))>>))>>),
  For(Assign("i", PrimNum(1)), Variable("i"), Assign("i", PrimNum(0)),
      Block(<<Call("cnt", <<>>), Assign("w", PrimNum(3))>>)),
  Repeat(Block(<<Call("cnt", <<>>), Assign("w", PrimNum(3))>>), PrimNum(0)),
  While(PrimNum(1), Block(<<Call("xt", <<>>), Assign("w", PrimNum(3))>>)),
  Call("xt", <<>>),
  Call("cnt", <<>>),
  Call("brk", <<>>),
  Call("rand", <<>>),
  Call("fail", <<>>),
  Call("nofn", <<>>),
  Call("n", <<>>),
  Call("e", <<>>),
  Call("f", <<NamedParameter("f", PrimNum(1))>>),
  Call("f", <<PrimNum(5)>>),
  Call("anon", <<PrimNum(1), NamedParameter("_FCT_ANON_ARGS", PrimNum(9)), PrimNum(23)>>),
  Call("outer", <<NamedParameter("x", PrimNum(1))>>),
  Call("rand", <<PrimNum(1)>>),
  Call("mk", <<>>),
  Call("anon", <<Call("brk", <<>>)>>),
  Return(Call("brk", <<>>)),
  Variable("f"),
  Block(<<Assign("v", PrimNum(2)), Break, Assign("w", PrimNum(3))>>),
  Block(<<Return(PrimNum(3)), Assign("w", PrimNum(3))>>),
  Block(<<NoOp, Block(<<Exit(PrimNum(2))>>), Assign("w", PrimNum(3))>>),
  Block(<<Continue, Call("nofn", <<>>)>>),
  Block(<<NoOp, Assign("w", PrimNum(3))>>),
  Block(<<Assign("c", PrimNum(1)),
          While(Variable("c"),
                Block(<<Assign("c", PrimNum(0)), Continue, Assign("w", PrimNum(3))>>))>>),
  While(PrimNum(1), Block(<<Break, Assign("w", PrimNum(3))>>)),
  While(Variable("a"), Block(<<Return(Variable("a"))>>)),
  For(Assign("i", PrimNum(1)), Variable("i"), Assign("i", PrimNum(0)), Block(<<Break>>)),
  Repeat(Block(<<Call("f", <<>>)>>), PrimStr(<<"0">>)),
  Repeat(Block(<<Exit(PrimNum(2))>>), PrimNum(1)),
  Block(<<Assign("c", PrimNum(1)),
          Repeat(Block(<<IfElse(Variable("c"),
                                Block(<<Assign("c", PrimNum(0)), Continue>>),
                                Break)>>),
                 PrimNum(1))>>),
  ForEach("e", PrimStr(<<"x", "y">>), Block(<<Return(Variable("e"))>>)),
  Call("f", <<>>) }

\* Interpreter::new over a script of one statement
StmtInit ==
  /\ \E initial \in StmtInitials : registrat = create_root(<<>>, initial)
  /\ \E s \in Exprs : script = <<LexOk(s)>>
  /\ lexer = script
  /\ results = <<>>
  /\ yielded = NotPulled
  /\ before = <<>>
  /\ trace = <<>>
  /\ status = "running"

StmtNext == NextStatement \/ NextNone

StmtSpec == StmtInit /\ [][StmtNext]_vars


\* The part of a repeat statement that its k-th evaluation of a child is for
RepeatPart(s, k) == IF k % 2 = 1 THEN s.body ELSE s.condition

\* C21: a repeat loop evaluates its body first, then condition and body
\* in turns; the condition follows a body that yielded neither Break nor
\* Return nor Exit, the next body follows a condition that coerced to
\* true, and a loop that returned a value stopped at a false condition or
\* at a body that yielded Break, Return or Exit.
C21_RepeatOrder ==
  \A i \in Enters(trace) :
    trace[i].s.k = "Repeat" =>
      LET s == trace[i].s
          ens == Direct(trace, i, End(trace, i), "enter")
          exs == Direct(trace, i, End(trace, i), "exit")
          n == Len(exs)
      IN /\ \A k \in DOMAIN ens :
              /\ ens[k].s = RepeatPart(s, k)
              /\ k > 1 => (k - 1 <= n /\ exs[k - 1].r = "ok")
              /\ (k > 1 /\ k % 2 = 1) => ToBool(exs[k - 1].v)
              /\ k % 2 = 0 => ~EndsLoop(exs[k - 1].v)
         /\ Match(trace, i) # 0 => (n = Len(ens) /\ n >= 1)
         /\ (Match(trace, i) # 0 /\ trace[Match(trace, i)].r = "ok") =>
              /\ exs[n].r = "ok"
              /\ n % 2 = 1 => EndsLoop(exs[n].v)
              /\ n % 2 = 0 => ~ToBool(exs[n].v)

\* A repeat loop ran its body (Continue), found its condition true, ran the
\* body again and ended at its Break, without a further condition.
C21_Witness ==
  \E i \in Enters(trace) :
    /\ trace[i].s.k = "Repeat" /\ Match(trace, i) # 0
    /\ LET exs == Direct(trace, i, End(trace, i), "exit")
       IN /\ Len(exs) = 3
          /\ exs[1].v = ContinueV
          /\ ToBool(exs[2].v)
          /\ exs[3].v = BreakV
    /\ trace[Match(trace, i)].v = Null


\* C22: a foreach loop evaluates its iterable once and first; every later
\* child is the body, the k-th of them entered with the loop name bound in
\* the current frame to the k-th element of the sequence that the value of
\* the iterable converts to and the register otherwise as the previous
\* child left it; there are at most as many body evaluations as elements,
\* whatever the bodies assign, and a loop that returned a value went
\* through all elements or stopped at a Break, Return or Exit.
C22_ForEachOnce ==
  \A i \in Enters(trace) :
    trace[i].s.k = "ForEach" =>
      LET s == trace[i].s
          ens == Direct(trace, i, End(trace, i), "enter")
          exs == Direct(trace, i, End(trace, i), "exit")
          n == Len(exs)
      IN /\ ens # <<>> => ens[1].s = s.iterable
         /\ \A k \in 2..Len(ens) :
              /\ ens[k].s = s.body
              /\ k - 1 <= n /\ exs[k - 1].r = "ok"
              /\ k - 1 <= Len(ToVec(exs[1].v))
              /\ k > 2 => ~EndsLoop(exs[k - 1].v)
              /\ ens[k].reg =
                   last_mut_add_named(exs[k - 1].reg, s.variable,
                                      Value(ToVec(exs[1].v)[k - 1]))
         /\ (Match(trace, i) # 0 /\ trace[Match(trace, i)].r = "ok") =>
              /\ n = Len(ens) /\ n >= 1 /\ exs[n].r = "ok"
              /\ \/ n - 1 = Len(ToVec(exs[1].v))
                 \/ n >= 2 /\ EndsLoop(exs[n].v)

\* foreach e (v) { v = 0; e = 9; } over v = [1, 2] ran its body twice, the
\* second time with e = 2, although the first body had assigned v and e.
C22_Witness ==
  \E i \in Enters(trace) :
    /\ trace[i].s.k = "ForEach" /\ Match(trace, i) # 0
    /\ trace[i].s.iterable = Variable("v")
    /\ LET ens == Direct(trace, i, End(trace, i), "enter")
           exs == Direct(trace, i, End(trace, i), "exit")
       IN /\ Len(ens) = 3 /\ Len(exs) = 3
          /\ exs[1].v = ArrayV(<<Number(1), Number(2)>>)
          /\ last(exs[2].reg).named["v"] = Value(Number(0))
          /\ last(exs[2].reg).named["e"] = Value(Number(9))
          /\ last(ens[3].reg).named["e"] = Value(Number(2))


\* C29 as claimed: after a foreach loop that returned a value its variable
\* is bound in the current frame to the last element for which the body
\* was started, and a loop over an empty sequence never runs its body and
\* leaves the register as it found it.
C29_VariableHoldsLastElement ==
  \A i \in Enters(trace) :
    (trace[i].s.k = "ForEach" /\ Match(trace, i) # 0
       /\ trace[Match(trace, i)].r = "ok") =>
      LET s == trace[i].s
          x == trace[Match(trace, i)]
          ens == Direct(trace, i, End(trace, i), "enter")
          exs == Direct(trace, i, End(trace, i), "exit")
          vec == ToVec(exs[1].v)
          started == Len(ens) - 1
      IN /\ started >= 1 =>
              /\ s.variable \in DOMAIN last(x.reg).named
              /\ last(x.reg).named[s.variable] = Value(vec[started])
         /\ vec = <<>> => (started = 0 /\ x.reg = trace[i].reg)

\* C29 (amended): a foreach loop that returned a value wrote nothing to the
\* register after its last body evaluation: the register is as that body
\* left it, the variable was bound in the current frame to the element
\* before that body started, and so it still holds that element unless the
\* body rebound it; over an empty sequence the body never runs and the
\* register is as the evaluation of the iterable left it.
C29_RegisterAsLastBodyLeftIt ==
  \A i \in Enters(trace) :
    (trace[i].s.k = "ForEach" /\ Match(trace, i) # 0
       /\ trace[Match(trace, i)].r = "ok") =>
      LET s == trace[i].s
          x == trace[Match(trace, i)]
          ens == Direct(trace, i, End(trace, i), "enter")
          exs == Direct(trace, i, End(trace, i), "exit")
          vec == ToVec(exs[1].v)
          started == Len(ens) - 1
      IN /\ Len(exs) = Len(ens)
         /\ x.reg = exs[Len(exs)].reg
         /\ started >= 1 =>
              /\ last(ens[Len(ens)].reg).named[s.variable] = Value(vec[started])
              /\ (last(exs[Len(exs)].reg).named[s.variable] = Value(vec[started]))
                   => last(x.reg).named[s.variable] = Value(vec[started])
         /\ vec = <<>> => started = 0

\* In one block a loop over the empty sequence left the register as it
\* was, without binding u, and foreach e (v) { v = 0; e = 9; } over [1, 2]
\* ended with e = 9, the value its last body assigned.
C29_Witness ==
  /\ yielded.some /\ yielded.r = "ok"
  /\ \E i \in Enters(trace) :
       /\ trace[i].s.k = "ForEach" /\ trace[i].s.variable = "u"
       /\ Match(trace, i) # 0
       /\ trace[Match(trace, i)].reg = trace[i].reg
       /\ Len(Direct(trace, i, End(trace, i), "enter")) = 1
  /\ \E i \in Enters(trace) :
       /\ trace[i].s.k = "ForEach" /\ trace[i].s.variable = "e"
       /\ Match(trace, i) # 0
       /\ Len(Direct(trace, i, End(trace, i), "enter")) = 3
       /\ last(trace[Match(trace, i)].reg).named["e"] = Value(Number(9))
  /\ "u" \notin DOMAIN last(registrat).named
  /\ last(registrat).named["e"] = Value(Number(9))


\* The invocations of a built-in handler that the call entered at i made
HandlerEvents(tr, i) ==
  {b \in DOMAIN tr : /\ b > i /\ b < End(tr, i) /\ tr[b].ev = "builtin"
                     /\ tr[b].lvl = tr[i].lvl + 1}

\* C23: a call of a name in the built-in registry invokes the handler
\* once and evaluates no function body, also when the register binds a
\* function under that name; it returns the handler's value, or the error
\* "unable to call function <name>: <detail>".  A call of any other name
\* invokes no handler, and fails with "function <name> not found" when the
\* register does not bind the name either.
C23_BuiltInFirst ==
  \A j \in DOMAIN trace :
    trace[j].ev = "push" =>
      LET i == CallSite(trace, j)
          name == trace[j].s.name
          x == Match(trace, i)
          h == builtin(name, trace[j].reg)
      IN IF name \in BuiltIns
         THEN /\ Cardinality(HandlerEvents(trace, i)) = 1
              /\ BodyEvents(trace, i) = {}
              /\ x # 0
              /\ h.ok => (trace[x].r = "ok" /\ trace[x].v = h.v)
              /\ ~h.ok => /\ trace[x].r = "err"
                          /\ trace[x].v.reason = <<"unable to call function", name, h.v>>
         ELSE /\ HandlerEvents(trace, i) = {}
              /\ named(trace[j].reg, name) = None =>
                   /\ BodyEvents(trace, i) = {}
                   /\ x # 0 /\ trace[x].r = "err"
                   /\ trace[x].v.reason = <<"function not found", name>>

\* rand() ran the handler and returned its value although the root frame
\* binds a function rand that would have returned 99.
C23_Witness ==
  /\ trace # <<>> /\ trace[1].s.k = "Call" /\ trace[1].s.name = "rand"
  /\ Root(trace[1].reg).named["rand"] = FnRand
  /\ Cardinality(HandlerEvents(trace, 1)) = 1
  /\ BodyEvents(trace, 1) = {}
  /\ yielded.some /\ yielded.r = "ok" /\ yielded.v = Number(4)


\* The name called at the push event j is no built-in and resolves, from
\* the pushed frame, to a value
CalleeIsValue(tr, j) ==
  /\ tr[j].ev = "push" /\ tr[j].s.name \notin BuiltIns
  /\ named(tr[j].reg, tr[j].s.name) # None
  /\ named(tr[j].reg, tr[j].s.name).d = "Value"

\* C24: a call of a name that is no built-in and resolves from the pushed
\* frame to a Value fails with the unexpected-kind error; nothing is
\* evaluated after the frame is pushed.
C24_ValueIsNotCallable ==
  \A j \in DOMAIN trace :
    CalleeIsValue(trace, j) =>
      LET i == CallSite(trace, j)
          x == Match(trace, i)
      IN /\ x # 0
         /\ trace[x].r = "err"
         /\ trace[x].v.reason = <<"unexpected ContextType", "Value">>
         /\ BodyEvents(trace, i) = {}
         /\ \A m \in (j + 1)..(x - 1) : trace[m].ev \notin {"enter", "body", "builtin"}

\* f(f: 1): the root frame binds the function f, the named argument f
\* shadows it in the pushed frame and the call fails.
C24_Witness ==
  \E j \in DOMAIN trace :
    /\ CalleeIsValue(trace, j)
    /\ trace[j].s.name = "f"
    /\ Root(trace[j].reg).named["f"].d = "Function"
    /\ last(trace[j].reg).named["f"] = Value(Number(1))
    /\ yielded.some /\ yielded.r = "err"

\* n(): the name is a variable of the root frame and the call fails.
C24_RootVariableCase ==
  \E j \in DOMAIN trace :
    /\ CalleeIsValue(trace, j)
    /\ trace[j].s.name \notin DOMAIN last(trace[j].reg).named
    /\ Root(trace[j].reg).named[trace[j].s.name].d = "Value"
    /\ yielded.some /\ yielded.r = "err"


\* The frames a lookup follows from the current frame: each is the parent
\* of the one before
FollowsParents(reg, path) ==
  /\ path # <<>> /\ path[1] = Len(reg) - 1
  /\ \A k \in 1..(Len(path) - 1) : path[k + 1] = reg[path[k] + 1].parent

\* The outcome is the binding of the first frame of the path that binds
\* the name, or none when the path ends at a frame without parent and no
\* frame of it binds the name
NearestBinding(reg, name, path, outcome) ==
  LET end == reg[path[Len(path)] + 1]
  IN /\ \A k \in 1..(Len(path) - 1) : name \notin DOMAIN reg[path[k] + 1].named
     /\ outcome.r = "found" => (name \in DOMAIN end.named /\ outcome.v = end.named[name])
     /\ outcome.r = "none" => (name \notin DOMAIN end.named /\ end.parent = NoParent)

\* C25: a lookup returns the binding of the nearest frame on the parent
\* chain of the current frame that binds the name, and none when no frame
\* of the chain binds it.
C25_NearestBinding ==
  (yielded.some /\ script # <<>>) =>
    /\ yielded.r \in {"found", "none"}
    /\ FollowsParents(registrat, trace)
    /\ NearestBinding(registrat, script[1], trace, yielded)

\* The same for the lookups that return: on the registers whose chain
\* leads to a frame without parent, or binds the name on the way, the
\* lookup is as C25 says.
C25_NearestBindingWhenReturned ==
  (yielded.some /\ script # <<>> /\ yielded.r \in {"found", "none"}) =>
    /\ FollowsParents(registrat, trace)
    /\ NearestBinding(registrat, script[1], trace, yielded)

\* A lookup of x found the binding of the current frame where the root
\* binds x to another value.
C25_ShadowingCase ==
  /\ yielded.some /\ script = <<"x">> /\ yielded.r = "found"
  /\ Len(registrat) >= 2 /\ trace = <<Len(registrat) - 1>>
  /\ "x" \in DOMAIN Root(registrat).named
  /\ Root(registrat).named["x"] # yielded.v


\* C26: an Exit statement whose operand evaluates to Number(n) yields
\* Exit(n); for an operand value of any other kind it returns the error
\* "expected numeric value" and yields no Exit.
C26_ExitNeedsNumber ==
  \A i \in Enters(trace) :
    trace[i].s.k = "Exit" =>
      LET exs == Direct(trace, i, End(trace, i), "exit")
          x == Match(trace, i)
      IN (exs # <<>> /\ exs[1].r = "ok") =>
           /\ Len(exs) = 1 /\ x # 0
           /\ IF exs[1].v.t = "Number"
              THEN trace[x].r = "ok" /\ trace[x].v = ExitV(exs[1].v.n)
              ELSE /\ trace[x].r = "err"
                   /\ trace[x].v.reason = <<"expected numeric value">>

\* exit (exit 1): the inner statement yielded Exit(1) for its operand 1,
\* the outer one failed on the operand Exit(1).
C26_Witness ==
  /\ script = <<LexOk(Exit(Exit(PrimNum(1))))>>
  /\ \E i \in Enters(trace) :
       /\ trace[i].s = Exit(PrimNum(1))
       /\ trace[Match(trace, i)].v = ExitV(1)
  /\ yielded.some /\ yielded.r = "err"
  /\ yielded.v.reason = <<"expected numeric value">>

\* The kinds of operand value that were refused
C26_RefusedKinds ==
  {k \in {"String", "Boolean", "Null", "Array", "Dict", "Exit", "Return", "Break", "Continue"} :
     \E i \in Enters(trace) :
       /\ trace[i].s.k = "Exit" /\ Match(trace, i) # 0
       /\ trace[Match(trace, i)].r = "err"
       /\ Direct(trace, i, End(trace, i), "exit") # <<>>
       /\ Direct(trace, i, End(trace, i), "exit")[1].r = "ok"
       /\ Direct(trace, i, End(trace, i), "exit")[1].v.t = k}


\* The register has a root at index 0 and all other frames are its children
RootedAtZero(reg) ==
  /\ Len(reg) >= 1
  /\ reg[1].parent = NoParent /\ reg[1].id = 0
  /\ \A k \in 2..Len(reg) : reg[k].parent = 0

\* C27: from construction on, between the pulls and at every step of an
\* evaluation, the register holds at least one frame, frame 0 has no
\* parent, and every other frame has parent 0.
C27_RootedRegister ==
  /\ RootedAtZero(registrat)
  /\ \A j \in DOMAIN trace : RootedAtZero(trace[j].reg)

\* outer(x: 1) nested three call frames over the root and failed in the
\* innermost body; the frames it left are still children of frame 0.
C27_Witness ==
  /\ \E j \in DOMAIN trace : Len(trace[j].reg) >= 4
  /\ Len(registrat) >= 4
  /\ yielded.some /\ yielded.r = "err"


\* The invocation that made the invocation entered at i (0: none)
Parent(tr, i) ==
  LET ms == {m \in Enters(tr) : m < i /\ tr[m].lvl = tr[i].lvl - 1}
  IN IF ms = {} THEN 0 ELSE CHOOSE m \in ms : \A q \in ms : q <= m

\* The call entered at i returned and is a statement of the block that is
\* the body of a loop
InLoopBody(tr, i) ==
  /\ Match(tr, i) # 0
  /\ Parent(tr, i) # 0 /\ tr[Parent(tr, i)].s.k = "Block"
  /\ Parent(tr, Parent(tr, i)) # 0
  /\ IsLoop(tr[Parent(tr, Parent(tr, i))].s)
  /\ tr[Parent(tr, Parent(tr, i))].s.body = tr[Parent(tr, i)].s

\* What a loop evaluates after a body that did not end it
AfterBody(s) == IF s.k = "For" THEN s.update ELSE s.condition

\* C28: a Break, Continue or Exit(n) that the body of a user-defined
\* function yields is the value of the call; when the call is a statement
\* of a block that is the body of a loop, the block ends with that value
\* at once, and the loop ends with Null on Break, ends with Exit(n) on
\* Exit(n) and goes on on Continue.
C28_SentinelPassesThroughCall ==
  \A i \in Enters(trace) :
    \A b \in BodyEvents(trace, i) :
      LET bx == BodyExit(trace, b)
          x == Match(trace, i)
      IN (bx # 0 /\ trace[bx].r = "ok"
            /\ trace[bx].v.t \in {"Break", "Continue", "Exit"}) =>
           /\ x # 0 /\ trace[x].r = "ok" /\ trace[x].v = trace[bx].v
           /\ InLoopBody(trace, i) =>
                LET blk == Parent(trace, i)
                    lp == Parent(trace, blk)
                    v == trace[x].v
                IN /\ Match(trace, blk) = x + 1
                   /\ trace[x + 1].r = "ok" /\ trace[x + 1].v = v
                   /\ v.t = "Break" =>
                        /\ Match(trace, lp) = x + 2
                        /\ trace[x + 2].r = "ok" /\ trace[x + 2].v = Null
                   /\ v.t = "Exit" =>
                        /\ Match(trace, lp) = x + 2
                        /\ trace[x + 2].r = "ok" /\ trace[x + 2].v = v
                   /\ (v.t = "Continue" /\ trace[lp].s.k # "ForEach" /\ Len(trace) > x + 1) =>
                        /\ trace[x + 2].ev = "enter"
                        /\ trace[x + 2].lvl = trace[blk].lvl
                        /\ trace[x + 2].s = AfterBody(trace[lp].s)

\* In one block, brk() ended the first while loop and cnt() sent the
\* second one back to its condition; neither loop reached the statement
\* after the call.
C28_Witness ==
  /\ yielded.some /\ yielded.r = "ok" /\ yielded.v = Null
  /\ \E i \in Enters(trace) :
       /\ trace[i].s = Call("brk", <<>>) /\ InLoopBody(trace, i)
       /\ trace[Match(trace, i)].v = BreakV
       /\ trace[Parent(trace, Parent(trace, i))].s.k = "While"
  /\ \E i \in Enters(trace) :
       /\ trace[i].s = Call("cnt", <<>>) /\ InLoopBody(trace, i)
       /\ trace[Match(trace, i)].v = ContinueV
       /\ trace[Match(trace, i) + 2].s = Variable("c")
  /\ "c" \in DOMAIN last(registrat).named
  /\ "w" \notin DOMAIN last(registrat).named

====
